---- MODULE Spec2Model ----
(***************************************************************************)
(* Temporal.PlainDate of boa: the constructor, CreateTemporalDate and      *)
(* ToTemporalDate of core/engine/src/builtins/temporal/plain_date/mod.rs.  *)
(*                                                                         *)
(* The model follows one PlainDate object (`date`) and the last call made  *)
(* (`op`, `args`) with its completion (`result`).  The operations of the   *)
(* boa_temporal crate the file calls (Date::new, DateTime::validate, the   *)
(* ISO-8601 parser, the options helpers) are modelled from the             *)
(* specification's sections 4.1, 4.2, 4.5 and 4.6.                         *)
(***************************************************************************)
EXTENDS Integers, Sequences, FiniteSets, TLC

VARIABLES
    date,      \* the PlainDate object followed by the model, NoDate before it exists
    op,        \* name of the last operation called
    args,      \* the arguments of the last operation
    result     \* the completion of the last operation

vars == <<date, op, args, result>>

-----------------------------------------------------------------------------
(* Bounds of the explored inputs *)

\* largest month number tried (12 is the last calendar month)
MaxMonth == 13
\* largest day number tried (31 is the longest month)
MaxDay == 32

Years == {0 - 271821, 2023, 2024, 275760}
Months == {0, 2, 4, 9} \cup (12 .. MaxMonth)
Days == {0, 13, 14, 18, 19} \cup (28 .. MaxDay)

-----------------------------------------------------------------------------
(* Values *)

NoDate == [year |-> 0, month |-> 0, day |-> 0, calendar |-> "none"]

IsoDate(y, m, d, cal) == [year |-> y, month |-> m, day |-> d, calendar |-> cal]

Ok(d, called) == [status |-> "ok", class |-> "none", value |-> d, callout |-> called]

Err(cls, called) == [status |-> "err", class |-> cls, value |-> NoDate, callout |-> called]

NoResult == [status |-> "none", class |-> "none", value |-> NoDate, callout |-> FALSE]

-----------------------------------------------------------------------------
(* IsoDate validity and the supported range (specification 4.1) *)

in_leap_year(y) == y % 4 = 0 /\ (y % 100 # 0 \/ y % 400 = 0)

iso_days_in_month(y, m) ==
    IF m \in {1, 3, 5, 7, 8, 10, 12} THEN 31
    ELSE IF m \in {4, 6, 9, 11} THEN 30
    ELSE IF in_leap_year(y) THEN 29 ELSE 28

is_valid(y, m, d) ==
    /\ m \in 1 .. 12
    /\ d \in 1 .. iso_days_in_month(y, m)

RECURSIVE DaysBeforeMonth(_, _)
DaysBeforeMonth(y, m) ==
    IF m <= 1 THEN 0 ELSE DaysBeforeMonth(y, m - 1) + iso_days_in_month(y, m - 1)

\* days from 0001-01-01 to the first of January of year y (floor division)
DaysBeforeYear(y) ==
    365 * (y - 1) + ((y - 1) \div 4) - ((y - 1) \div 100) + ((y - 1) \div 400)

\* day number of a calendar-valid date, 1970-01-01 being day 0
EpochDays(y, m, d) ==
    DaysBeforeYear(y) - DaysBeforeYear(1970) + DaysBeforeMonth(y, m) + (d - 1)

\* the representable instants span this many days on either side of the epoch
MaxInstantDays == 100000000

\* ISODateTimeWithinLimits(y, m, d, 12, 0, 0, 0, 0, 0), counted in half days:
\* midday of the date lies strictly within one day of the instant range.
is_within_supported_range(y, m, d) ==
    LET noon == 2 * EpochDays(y, m, d) + 1
    IN  /\ noon > 0 - (2 * MaxInstantDays + 2)
        /\ noon < 2 * MaxInstantDays + 2

Clamp(x, lo, hi) == IF x < lo THEN lo ELSE IF x > hi THEN hi ELSE x

-----------------------------------------------------------------------------
(* Construction (specification 4.2, mod.rs 231-257 and 571-611) *)

BuiltinCalendars == {"iso8601"}

CalendarArgs == {"undefined", "iso8601", "bogus"}

Overflows == {"constrain", "reject"}

\* "none": no new_target passed; "undefined": called without new;
\* "PlainDate": the intrinsic constructor; "throwing": a constructor whose
\* "prototype" lookup runs user code that throws.
NewTargets == {"undefined", "PlainDate", "throwing"}

\* calendar::to_temporal_calendar_slot_value
to_temporal_calendar_slot_value(cal) ==
    IF cal = "undefined" THEN [ok |-> TRUE, calendar |-> "iso8601"]
    ELSE IF cal \in BuiltinCalendars THEN [ok |-> TRUE, calendar |-> cal]
    ELSE [ok |-> FALSE, calendar |-> "none"]

\* InnerDate::new clamping the day to the length of the month as given, not
\* of the clamped month
InnerDateNew_unclampedMonth(y, m, d, cal, overflow) ==
    IF overflow = "reject"
    THEN IF is_valid(y, m, d)
         THEN [ok |-> TRUE, date |-> IsoDate(y, m, d, cal)]
         ELSE [ok |-> FALSE, date |-> NoDate]
    ELSE LET mm == Clamp(m, 1, 12)
             dd == Clamp(d, 1, iso_days_in_month(y, m))
         IN  [ok |-> TRUE, date |-> IsoDate(y, mm, dd, cal)]

\* InnerDate::new(year, month, day, calendar, overflow)
InnerDateNew(y, m, d, cal, overflow) ==
    IF overflow = "reject"
    THEN IF is_valid(y, m, d)
         THEN [ok |-> TRUE, date |-> IsoDate(y, m, d, cal)]
         ELSE [ok |-> FALSE, date |-> NoDate]
    ELSE LET mm == Clamp(m, 1, 12)
             dd == Clamp(d, 1, iso_days_in_month(y, mm))
         IN  [ok |-> TRUE, date |-> IsoDate(y, mm, dd, cal)]

\* DateTime::validate(&inner)
DateTimeValidate(inner) ==
    is_within_supported_range(inner.year, inner.month, inner.day)

\* get_prototype_from_constructor(&new_target, ..)?
get_prototype_from_constructor(newTarget) ==
    IF newTarget = "throwing" THEN "throws" ELSE "prototype"

\* create_temporal_date without the ISODateTimeWithinLimits test
create_temporal_date_unchecked(inner, newTarget) ==
    IF get_prototype_from_constructor(newTarget) = "throws"
    THEN Err("Thrown", TRUE)
    ELSE Ok(inner, TRUE)

\* create_temporal_date resolving the prototype before the range test
create_temporal_date_calloutFirst(inner, newTarget) ==
    IF get_prototype_from_constructor(newTarget) = "throws"
    THEN Err("Thrown", TRUE)
    ELSE IF ~DateTimeValidate(inner)
         THEN Err("RangeError", TRUE)
         ELSE Ok(inner, TRUE)

create_temporal_date(inner, newTarget) ==
    IF ~DateTimeValidate(inner)
    THEN Err("RangeError", FALSE)
    ELSE IF get_prototype_from_constructor(newTarget) = "throws"
         THEN Err("Thrown", TRUE)
         ELSE Ok(inner, TRUE)

\* the constructor reading the day argument as the month and the month as the day
constructor_swapped(newTarget, y, m, d, cal) ==
    IF newTarget = "undefined"
    THEN Err("TypeError", FALSE)
    ELSE LET slot == to_temporal_calendar_slot_value(cal)
         IN  IF ~slot.ok
             THEN Err("RangeError", FALSE)
             ELSE LET inner == InnerDateNew(y, d, m, slot.calendar, "reject")
                  IN  IF ~inner.ok
                      THEN Err("RangeError", FALSE)
                      ELSE create_temporal_date(inner.date, newTarget)

\* the constructor handing ArithmeticOverflow::Constrain to InnerDate::new
constructor_constrain(newTarget, y, m, d, cal) ==
    IF newTarget = "undefined"
    THEN Err("TypeError", FALSE)
    ELSE LET slot == to_temporal_calendar_slot_value(cal)
         IN  IF ~slot.ok
             THEN Err("RangeError", FALSE)
             ELSE LET inner == InnerDateNew(y, m, d, slot.calendar, "constrain")
                  IN  IF ~inner.ok
                      THEN Err("RangeError", FALSE)
                      ELSE create_temporal_date(inner.date, newTarget)

constructor(newTarget, y, m, d, cal) ==
    IF newTarget = "undefined"
    THEN Err("TypeError", FALSE)
    ELSE LET slot == to_temporal_calendar_slot_value(cal)
         IN  IF ~slot.ok
             THEN Err("RangeError", FALSE)
             ELSE LET inner == InnerDateNew(y, m, d, slot.calendar, "reject")
                  IN  IF ~inner.ok
                      THEN Err("RangeError", FALSE)
                      ELSE create_temporal_date(inner.date, newTarget)

\* construct(year, month, day, calendar_id, overflow) of specification 4.2:
\* InnerDate::new under the given policy, then create_temporal_date without
\* a new_target.
construct(y, m, d, cal, overflow) ==
    LET slot == to_temporal_calendar_slot_value(cal)
    IN  IF ~slot.ok
        THEN Err("RangeError", FALSE)
        ELSE LET inner == InnerDateNew(y, m, d, slot.calendar, overflow)
             IN  IF ~inner.ok
                 THEN Err("RangeError", FALSE)
                 ELSE create_temporal_date(inner.date, "none")

\* get year / get month / get day: the ISO calendar's projections
get_year(this) == this.year

get_month(this) == this.month

get_day(this) == this.day

\* get calendarId
get_calendar_id(this) == this.calendar

\* get monthCode: "M" and the month in two digits, as characters
get_month_code(this) ==
    LET digit == <<"0", "1", "2", "3", "4", "5", "6", "7", "8", "9">>
    IN  <<"M", digit[(this.month \div 10) + 1], digit[(this.month % 10) + 1]>>

\* get dayOfWeek: Monday = 1 .. Sunday = 7 (1970-01-01 was a Thursday)
get_day_of_week(this) == ((EpochDays(this.year, this.month, this.day) + 3) % 7) + 1

\* get dayOfYear
get_day_of_year(this) == DaysBeforeMonth(this.year, this.month) + this.day

\* get daysInWeek
get_days_in_week(this) == 7

\* get daysInMonth
get_days_in_month(this) == iso_days_in_month(this.year, this.month)

\* get daysInYear
get_days_in_year(this) == IF in_leap_year(this.year) THEN 366 ELSE 365

\* get monthsInYear
get_months_in_year(this) == 12

\* get inLeapYear
get_in_leap_year(this) == in_leap_year(this.year)

\* the number of ISO weeks of year y: 53 when the year starts on a Thursday,
\* or on a Wednesday and is a leap year
WeeksInYear(y) ==
    LET first == ((EpochDays(y, 1, 1) + 3) % 7) + 1
    IN  IF first = 4 \/ (first = 3 /\ in_leap_year(y)) THEN 53 ELSE 52

\* the week number within the date's own calendar year, 0 or 53 included
RawWeek(this) == (get_day_of_year(this) - get_day_of_week(this) + 10) \div 7

\* get weekOfYear taking the raw week number as it is
get_week_of_year_raw(this) == RawWeek(this)

\* get weekOfYear
get_week_of_year(this) ==
    IF RawWeek(this) < 1 THEN WeeksInYear(this.year - 1)
    ELSE IF RawWeek(this) > WeeksInYear(this.year) THEN 1
    ELSE RawWeek(this)

\* get yearOfWeek
get_year_of_week(this) ==
    IF RawWeek(this) < 1 THEN this.year - 1
    ELSE IF RawWeek(this) > WeeksInYear(this.year) THEN this.year + 1
    ELSE this.year

-----------------------------------------------------------------------------
(* Options (specification 4.6) *)

\* The options argument: "absent" (None), undefined, {}, {overflow: "constrain"},
\* {overflow: "reject"}, {overflow: "bogus"}, or a number (neither undefined nor
\* an object).
OptionsArgs == {"absent", "undefined", "empty", "constrain", "reject", "bogus", "number"}

\* get_options_object(&options.unwrap_or(JsValue::undefined()))
get_options_object(options) ==
    IF options = "number" THEN [ok |-> FALSE, overflow |-> "none"]
    ELSE IF options \in {"absent", "undefined", "empty"} THEN [ok |-> TRUE, overflow |-> "none"]
    ELSE [ok |-> TRUE, overflow |-> options]

\* get_option::<ArithmeticOverflow>(&options_obj, "overflow", context)
get_option(options_obj) ==
    IF options_obj.overflow = "none" THEN [ok |-> TRUE, value |-> "none"]
    ELSE IF options_obj.overflow \in Overflows THEN [ok |-> TRUE, value |-> options_obj.overflow]
    ELSE [ok |-> FALSE, value |-> "none"]

-----------------------------------------------------------------------------
(* ISO-8601 date text (specification 4.5 case 5 and 6): a text is the     *)
(* sequence of its characters.                                             *)

Digits == <<"0", "1", "2", "3", "4", "5", "6", "7", "8", "9">>

IsDigit(c) == \E k \in 1 .. 10 : Digits[k] = c

DigitValue(c) == (CHOOSE k \in 1 .. 10 : Digits[k] = c) - 1

AllDigits(s, from, to) == \A k \in from .. to : IsDigit(s[k])

RECURSIVE Number(_, _, _)
Number(s, from, to) ==
    IF to < from THEN 0 ELSE 10 * Number(s, from, to - 1) + DigitValue(s[to])

CalendarKey == <<"[", "u", "-", "c", "a", "=">>

Iso8601Id == <<"i", "s", "o", "8", "6", "0", "1">>

\* the calendar a calendar annotation names, "unknown" if it is not built in
CalendarOf(id) == IF id = Iso8601Id THEN "iso8601" ELSE "unknown"

\* str.parse::<InnerDate<JsObject>>(): [+-]YYYYYY-MM-DD or YYYY-MM-DD, then an
\* optional [u-ca=<calendar>]; the date must be calendar-valid and the
\* calendar built in.
ParseTemporalDateString(s) ==
    LET signed == Len(s) >= 1 /\ s[1] \in {"+", "-"}
        y1 == IF signed THEN 2 ELSE 1
        y2 == IF signed THEN 7 ELSE 4
        shaped ==
            /\ Len(s) >= y2 + 6
            /\ AllDigits(s, y1, y2)
            /\ s[y2 + 1] = "-"
            /\ AllDigits(s, y2 + 2, y2 + 3)
            /\ s[y2 + 4] = "-"
            /\ AllDigits(s, y2 + 5, y2 + 6)
        rest == SubSeq(s, y2 + 7, Len(s))
        annotated ==
            /\ Len(rest) > Len(CalendarKey) + 1
            /\ SubSeq(rest, 1, Len(CalendarKey)) = CalendarKey
            /\ rest[Len(rest)] = "]"
        cal == IF rest = <<>> THEN "iso8601"
               ELSE IF annotated
                    THEN CalendarOf(SubSeq(rest, Len(CalendarKey) + 1, Len(rest) - 1))
                    ELSE "unknown"
        absYear == Number(s, y1, y2)
        y == IF signed /\ s[1] = "-" THEN 0 - absYear ELSE absYear
        m == Number(s, y2 + 2, y2 + 3)
        d == Number(s, y2 + 5, y2 + 6)
    IN  IF shaped /\ cal \in BuiltinCalendars /\ is_valid(y, m, d)
        THEN [ok |-> TRUE, date |-> IsoDate(y, m, d, cal)]
        ELSE [ok |-> FALSE, date |-> NoDate]

Text_2023_03_15 == <<"2", "0", "2", "3", "-", "0", "3", "-", "1", "5">>
Text_2024_02_29 == <<"2", "0", "2", "4", "-", "0", "2", "-", "2", "9">>
Text_2023_02_30 == <<"2", "0", "2", "3", "-", "0", "2", "-", "3", "0">>
Text_not_a_date == <<"n", "o", "t", "-", "a", "-", "d", "a", "t", "e">>
Text_2023_03 == <<"2", "0", "2", "3", "-", "0", "3">>
Text_signed == <<"+", "2", "7", "5", "7", "6", "0", "-", "0", "9", "-", "1", "3">>
Text_beyond == <<"+", "2", "7", "5", "7", "6", "0", "-", "0", "9", "-", "1", "4">>
Text_2021_01_01 == <<"2", "0", "2", "1", "-", "0", "1", "-", "0", "1">>
Text_2021_01_04 == <<"2", "0", "2", "1", "-", "0", "1", "-", "0", "4">>
Text_iso8601 == Text_2023_03_15 \o CalendarKey \o Iso8601Id \o <<"]">>
Text_bogus == Text_2023_03_15 \o CalendarKey \o <<"b", "o", "g", "u", "s", "]">>

Texts == {Text_2023_03_15, Text_2024_02_29, Text_2023_02_30, Text_not_a_date,
          Text_2023_03, Text_signed, Text_iso8601, Text_bogus,
          Text_beyond, Text_2021_01_01, Text_2021_01_04}

-----------------------------------------------------------------------------
(* Coercion (specification 4.5, mod.rs 616-684) *)

\* A JsValue handed to to_temporal_date. kind is what the value is; date the
\* ISO date and calendar slots of a Temporal object or the year/month/day
\* fields of a plain object; time the wall time of a PlainDateTime in minutes;
\* text the characters of a string.
Item(kind, d, time, text) == [kind |-> kind, date |-> d, time |-> time, text |-> text]

ObjectKinds == {"PlainDate", "ZonedDateTime", "PlainDateTime", "Object"}

OtherItems ==
    {Item("ZonedDateTime", IsoDate(2023, 3, 15, "iso8601"), 630, <<>>),
     Item("PlainDateTime", IsoDate(2023, 3, 15, "iso8601"), 630, <<>>),
     Item("PlainDateTime", IsoDate(2024, 2, 29, "iso8601"), 0, <<>>),
     Item("Object", IsoDate(2023, 3, 15, "iso8601"), 0, <<>>),
     Item("Object", NoDate, 0, <<>>),
     Item("Number", NoDate, 0, <<>>),
     Item("Undefined", NoDate, 0, <<>>)}
    \cup {Item("String", NoDate, 0, t) : t \in Texts}

\* InnerDate::from_datetime(date_time.inner())
from_datetime(item) == item.date

\* the PlainDate downcast missing, the item falling through to step 4.d
PlainDateBranch_fallthrough(item) == Err("Error", FALSE)

\* 4.a: item has an [[InitializedTemporalDate]] slot
PlainDateBranch(item) == Ok(item.date, FALSE)

\* 4.b: item has an [[InitializedTemporalZonedDateTime]] slot
ZonedDateTimeBranch(item) == Err("RangeError", FALSE)

\* step 4.c without step i, the overflow option never read
PlainDateTimeBranch_unread(item, options_obj) == Ok(from_datetime(item), FALSE)

\* 4.c: item has an [[InitializedTemporalDateTime]] slot
PlainDateTimeBranch(item, options_obj) ==
    IF ~get_option(options_obj).ok
    THEN Err("RangeError", FALSE)
    ELSE Ok(from_datetime(item), FALSE)

\* step 4.d-g reporting the missing feature as a RangeError
FieldsBranch_range(item) == Err("RangeError", FALSE)

\* 4.d-g: any other object
FieldsBranch(item) == Err("Error", FALSE)

\* step 5 throwing a RangeError
NotStringBranch_range(item) == Err("RangeError", FALSE)

\* 5: item is not a String
NotStringBranch(item) == Err("TypeError", FALSE)

\* steps 6-13 passing the parser's error on as a TypeError
StringBranch_typeError(item, options_obj) ==
    LET parsed == ParseTemporalDateString(item.text)
    IN  IF ~parsed.ok
        THEN Err("TypeError", FALSE)
        ELSE Ok(parsed.date, FALSE)

\* 6-13: item is a String
StringBranch(item, options_obj) ==
    LET parsed == ParseTemporalDateString(item.text)
    IN  IF ~parsed.ok
        THEN Err("RangeError", FALSE)
        ELSE Ok(parsed.date, FALSE)

\* to_temporal_date reading the options only where a branch needs them
to_temporal_date_optionsLate(item, options) ==
    LET options_obj == get_options_object(options)
    IN  IF item.kind \in ObjectKinds
        THEN IF item.kind = "PlainDate" THEN PlainDateBranch(item)
             ELSE IF item.kind = "ZonedDateTime" THEN ZonedDateTimeBranch(item)
             ELSE IF item.kind = "PlainDateTime"
                  THEN IF ~options_obj.ok THEN Err("TypeError", FALSE)
                       ELSE PlainDateTimeBranch(item, options_obj)
             ELSE FieldsBranch(item)
        ELSE IF item.kind # "String" THEN NotStringBranch(item)
        ELSE IF ~options_obj.ok THEN Err("TypeError", FALSE)
        ELSE StringBranch(item, options_obj)

to_temporal_date(item, options) ==
    LET options_obj == get_options_object(options)
    IN  IF ~options_obj.ok THEN Err("TypeError", FALSE)
        ELSE IF item.kind \in ObjectKinds
        THEN IF item.kind = "PlainDate" THEN PlainDateBranch(item)
             ELSE IF item.kind = "ZonedDateTime" THEN ZonedDateTimeBranch(item)
             ELSE IF item.kind = "PlainDateTime" THEN PlainDateTimeBranch(item, options_obj)
             ELSE FieldsBranch(item)
        ELSE IF item.kind # "String" THEN NotStringBranch(item)
        ELSE StringBranch(item, options_obj)

\* PlainDate::as_object: the object wrapping a PlainDate that a call returned
as_object(value) == create_temporal_date(value, "none")

-----------------------------------------------------------------------------
(* Accessors and prototype methods (mod.rs 262-556) *)

GetterNames ==
    {"calendarId", "year", "month", "monthCode", "day", "dayOfWeek", "dayOfYear",
     "weekOfYear", "yearOfWeek", "daysInWeek", "daysInMonth", "daysInYear",
     "monthsInYear", "inLeapYear"}

StubNames ==
    {"toPlainYearMonth", "toPlainMonthDay", "getISOFields", "add", "subtract",
     "with", "withCalendar", "until", "since", "equals"}

MethodNames == StubNames \cup {"getCalendar"}

\* the completion of an accessor or method: the value read, and no PlainDate
Value(x) == [status |-> "ok", class |-> "none", value |-> NoDate, callout |-> FALSE,
             out |-> x]

\* a call on a this value: its completion and the slots of this afterwards
Called(r, this) == [result |-> r, this |-> this.date]

\* the accessor `name` read on `this`
getter(name, this) ==
    IF this.kind # "PlainDate"
    THEN Called(Err("TypeError", FALSE), this)
    ELSE Called(Value(CASE name = "calendarId" -> get_calendar_id(this.date)
                        [] name = "year" -> get_year(this.date)
                        [] name = "month" -> get_month(this.date)
                        [] name = "monthCode" -> get_month_code(this.date)
                        [] name = "day" -> get_day(this.date)
                        [] name = "dayOfWeek" -> get_day_of_week(this.date)
                        [] name = "dayOfYear" -> get_day_of_year(this.date)
                        [] name = "weekOfYear" -> get_week_of_year(this.date)
                        [] name = "yearOfWeek" -> get_year_of_week(this.date)
                        [] name = "daysInWeek" -> get_days_in_week(this.date)
                        [] name = "daysInMonth" -> get_days_in_month(this.date)
                        [] name = "daysInYear" -> get_days_in_year(this.date)
                        [] name = "monthsInYear" -> get_months_in_year(this.date)
                        [] name = "inLeapYear" -> get_in_leap_year(this.date)),
                this)

\* 3.3.20 getCalendar: a calendar object made from a clone of this's calendar
get_calendar(this) ==
    IF this.kind # "PlainDate"
    THEN Called(Err("TypeError", FALSE), this)
    ELSE Called(Value(this.date.calendar), this)

\* the prototype methods that are not yet implemented
stub(name, this) == Called(Err("Error", FALSE), this)

\* a prototype method that sets the calendar slot of this where a new value
\* was to be made
method_inPlace(name, this) ==
    IF name = "getCalendar"
    THEN [result |-> Value(this.date.calendar),
          this |-> [this.date EXCEPT !.calendar = "replaced"]]
    ELSE stub(name, this)

\* the prototype method `name` called on `this`
method(name, this) ==
    IF name = "getCalendar" THEN get_calendar(this) ELSE stub(name, this)

-----------------------------------------------------------------------------
(* The state machine *)

Init ==
    /\ date = NoDate
    /\ op = "init"
    /\ args = [none |-> TRUE]
    /\ result = NoResult

\* new Temporal.PlainDate(y, m, d, cal), or the call without new.
\* A behaviour starts with one construction attempt: the successor of a
\* construction depends on no variable, so a later attempt would only reach
\* the states the first one reaches.
Constructor ==
    /\ op = "init"
    /\ \E nt \in NewTargets, y \in Years, m \in Months, d \in Days, cal \in CalendarArgs :
         LET r == constructor(nt, y, m, d, cal)
         IN  /\ op' = "constructor"
             /\ args' = [newTarget |-> nt, year |-> y, month |-> m, day |-> d,
                         calendar |-> cal]
             /\ result' = r
             /\ date' = IF r.status = "ok" THEN r.value ELSE date

\* construct(y, m, d, cal, overflow), likewise the first call of a behaviour
Construct ==
    /\ op = "init"
    /\ \E y \in Years, m \in Months, d \in Days, cal \in CalendarArgs, o \in Overflows :
         LET r == construct(y, m, d, cal, o)
         IN  /\ op' = "construct"
             /\ args' = [year |-> y, month |-> m, day |-> d, calendar |-> cal,
                         overflow |-> o]
             /\ result' = r
             /\ date' = IF r.status = "ok" THEN r.value ELSE date

\* The values a call can be handed in the current state: the PlainDate object
\* followed, the object wrapping the PlainDate the last call returned, and the
\* values that do not depend on the state.
ItemsNow ==
    OtherItems
    \cup (IF date # NoDate THEN {Item("PlainDate", date, 0, <<>>)} ELSE {})
    \cup (IF result.status = "ok" /\ result.value # NoDate
             /\ as_object(result.value).status = "ok"
          THEN {Item("PlainDate", as_object(result.value).value, 0, <<>>)}
          ELSE {})

ToTemporalDate ==
    \E item \in ItemsNow, options \in OptionsArgs :
        /\ op' = "to_temporal_date"
        /\ args' = [item |-> item, options |-> options]
        /\ result' = to_temporal_date(item, options)
        /\ date' = date

\* PlainDate::as_object on the PlainDate a coercion returned; the object made
\* is the one followed when none was constructed.
AsObject ==
    /\ op = "to_temporal_date"
    /\ result.status = "ok"
    /\ date = NoDate
    /\ LET r == as_object(result.value)
       IN  /\ op' = "as_object"
           /\ args' = [value |-> result.value]
           /\ result' = r
           /\ date' = IF r.status = "ok" THEN r.value ELSE date

\* the this value of an accessor or method call: the PlainDate object
\* followed, or undefined before it exists
ThisNow ==
    IF date # NoDate THEN Item("PlainDate", date, 0, <<>>)
    ELSE Item("Undefined", NoDate, 0, <<>>)

Getter ==
    \E name \in GetterNames :
        LET c == getter(name, ThisNow)
        IN  /\ op' = "getter"
            /\ args' = [name |-> name, this |-> ThisNow]
            /\ result' = c.result
            /\ date' = c.this

Method ==
    \E name \in MethodNames :
        LET c == method(name, ThisNow)
        IN  /\ op' = "method"
            /\ args' = [name |-> name, this |-> ThisNow]
            /\ result' = c.result
            /\ date' = c.this

Next ==
    \/ Constructor
    \/ Construct
    \/ ToTemporalDate
    \/ AsObject
    \/ Getter
    \/ Method

Spec == Init /\ [][Next]_vars

-----------------------------------------------------------------------------
(* Properties *)

\* the last call was a construction: the constructor invoked with a
\* new_target, or construct of specification 4.2
Constructing ==
    \/ op = "constructor" /\ args.newTarget # "undefined"
    \/ op = "construct"

\* the overflow policy of the last construction
PolicyOfCall == IF op = "constructor" THEN "reject" ELSE args.overflow

\* the calendar argument of the last construction names a calendar
CalendarResolves == args.calendar \in {"undefined"} \cup BuiltinCalendars

\* the last construction's prototype lookup completes normally
PrototypeResolves ==
    op = "constructor" => get_prototype_from_constructor(args.newTarget) = "prototype"

Failed(cls) == result.status = "err" /\ result.class = cls /\ result.value = NoDate

\* C1: a construction under the Reject policy with calendar "iso8601" and a
\* calendar-valid (y, m, d) within the supported range succeeds (the host's
\* prototype lookup completing normally), and the year, month and day getters
\* of the resulting PlainDate return y, m and d.
C1_ValidDateConstructs ==
    ( /\ Constructing
      /\ PolicyOfCall = "reject"
      /\ PrototypeResolves
      /\ args.calendar = "iso8601"
      /\ is_valid(args.year, args.month, args.day)
      /\ is_within_supported_range(args.year, args.month, args.day) )
    => /\ result.status = "ok"
       /\ get_year(result.value) = args.year
       /\ get_month(result.value) = args.month
       /\ get_day(result.value) = args.day
       /\ result.value.calendar = "iso8601"
       /\ date = result.value

C1_Witness ==
    /\ op = "constructor"
    /\ args = [newTarget |-> "PlainDate", year |-> 2024, month |-> 2, day |-> 29,
               calendar |-> "iso8601"]
    /\ result.status = "ok"
    /\ get_day(date) = 29

\* C2: a construction under the Reject policy whose month is outside 1..12 or
\* whose day is outside 1..days_in_month(y, m) fails with a RangeError and
\* produces no PlainDate.
C2_RejectInvalidDate ==
    ( /\ Constructing
      /\ PolicyOfCall = "reject"
      /\ \/ args.month < 1
         \/ args.month > 12
         \/ args.day < 1
         \/ args.day > iso_days_in_month(args.year, args.month) )
    => /\ Failed("RangeError")
       /\ date = NoDate

C2_Witness ==
    /\ op = "constructor"
    /\ args.newTarget = "PlainDate"
    /\ args.year = 2023 /\ args.month = 2 /\ args.day = 30
    /\ args.calendar = "iso8601"
    /\ Failed("RangeError")

\* C3: a construction under the Constrain policy fails only when the clamped
\* date is outside the supported range (or the calendar is unknown), never
\* because of the month or day; on success the month is the given month
\* clamped into 1..12 and the day the given day clamped into
\* 1..days_in_month(year, clamped month).
C3_ConstrainClamps ==
    ( /\ Constructing
      /\ PolicyOfCall = "constrain"
      /\ CalendarResolves )
    => LET m == IF args.month < 1 THEN 1 ELSE IF args.month > 12 THEN 12 ELSE args.month
           len == iso_days_in_month(args.year, m)
           d == IF args.day < 1 THEN 1 ELSE IF args.day > len THEN len ELSE args.day
       IN  IF is_within_supported_range(args.year, m, d)
           THEN /\ result.status = "ok"
                /\ result.value.year = args.year
                /\ result.value.month = m
                /\ result.value.day = d
           ELSE Failed("RangeError")

C3_Witness ==
    /\ op = "construct"
    /\ args.overflow = "constrain"
    /\ args.year = 2023 /\ args.month = 2 /\ args.day = 30
    /\ result.status = "ok"
    /\ result.value.month = 2
    /\ result.value.day = 28

\* C4: a construction with a calendar-valid (y, m, d) outside the supported
\* range fails with a RangeError under both policies and produces no
\* PlainDate.
C4_OutOfRangeRejected ==
    ( /\ Constructing
      /\ is_valid(args.year, args.month, args.day)
      /\ ~is_within_supported_range(args.year, args.month, args.day) )
    => /\ Failed("RangeError")
       /\ date = NoDate

C4_Witness ==
    /\ op = "construct"
    /\ args.overflow = "constrain"
    /\ args.calendar = "iso8601"
    /\ args.year = 275760 /\ args.month = 9 /\ args.day = 14
    /\ Failed("RangeError")

Coercing == op = "to_temporal_date"

\* the options argument is absent, undefined or an object
OptionsShaped == args.options # "number"

\* C5: to_temporal_date of a PlainDate object, the options absent, undefined
\* or an object, succeeds and returns the object's year, month, day and
\* calendar; coercing the object that wraps a coercion's result returns that
\* result again.
C5_CoercePlainDateIsCopy ==
    /\ [](( /\ Coercing
            /\ args.item.kind = "PlainDate"
            /\ OptionsShaped )
          => /\ result.status = "ok"
             /\ result.value = args.item.date)
    /\ [][( /\ Coercing
            /\ result.status = "ok"
            /\ Coercing'
            /\ args'.item = Item("PlainDate", result.value, 0, <<>>)
            /\ args'.options # "number" )
          => result' = result]_vars

C5_Witness ==
    /\ Coercing
    /\ date # NoDate
    /\ args.item = Item("PlainDate", date, 0, <<>>)
    /\ args.options = "reject"
    /\ result.status = "ok"
    /\ result.value = date

\* C6: to_temporal_date of a string with the options {overflow: "bogus"} fails
\* with a RangeError, also when the text is a valid date.
C6_TextBogusOverflowFails ==
    ( /\ Coercing
      /\ args.item.kind = "String"
      /\ args.options = "bogus" )
    => Failed("RangeError")

\* C7: to_temporal_date of a ZonedDateTime fails with an error that is neither
\* a RangeError nor a TypeError.
C7_ZonedNotImplemented ==
    ( /\ Coercing
      /\ args.item.kind = "ZonedDateTime"
      /\ OptionsShaped )
    => /\ result.status = "err"
       /\ result.class \notin {"RangeError", "TypeError"}

\* C8: to_temporal_date of an object that is no PlainDate, ZonedDateTime or
\* PlainDateTime fails with an error that is neither a RangeError nor a
\* TypeError and returns no PlainDate, whatever fields the object has.
C8_FieldsObjectNotImplemented ==
    ( /\ Coercing
      /\ args.item.kind = "Object"
      /\ OptionsShaped )
    => /\ result.status = "err"
       /\ result.class \notin {"RangeError", "TypeError"}
       /\ result.value = NoDate

C8_Witness ==
    /\ Coercing
    /\ args.item.kind = "Object"
    /\ args.item.date = IsoDate(2023, 3, 15, "iso8601")
    /\ args.options = "constrain"
    /\ Failed("Error")

\* C9: to_temporal_date of a value that is neither an object nor a string
\* fails with a TypeError.
C9_OtherValueTypeError ==
    ( /\ Coercing
      /\ args.item.kind \notin ObjectKinds \cup {"String"} )
    => Failed("TypeError")

C9_Witness ==
    /\ Coercing
    /\ args.item.kind = "Number"
    /\ args.options = "absent"
    /\ Failed("TypeError")

\* what each text denotes: its date and calendar, or NoDate for a text that
\* is no ISO-8601 date or names an unknown calendar
Denotes(text) ==
    IF text \in {Text_2023_03_15, Text_iso8601} THEN IsoDate(2023, 3, 15, "iso8601")
    ELSE IF text = Text_2024_02_29 THEN IsoDate(2024, 2, 29, "iso8601")
    ELSE IF text = Text_signed THEN IsoDate(275760, 9, 13, "iso8601")
    ELSE IF text = Text_beyond THEN IsoDate(275760, 9, 14, "iso8601")
    ELSE IF text = Text_2021_01_01 THEN IsoDate(2021, 1, 1, "iso8601")
    ELSE IF text = Text_2021_01_04 THEN IsoDate(2021, 1, 4, "iso8601")
    ELSE NoDate

C11_DateTimeOverflowValidated ==
    ( /\ Coercing
      /\ args.item.kind = "PlainDateTime"
      /\ OptionsShaped )
    => IF args.options = "bogus"
       THEN Failed("RangeError")
       ELSE /\ result.status = "ok"
            /\ result.value = [year |-> args.item.date.year,
                               month |-> args.item.date.month,
                               day |-> args.item.date.day,
                               calendar |-> args.item.date.calendar]

C11_Witness ==
    /\ Coercing
    /\ args.item.kind = "PlainDateTime"
    /\ args.item.time = 630
    /\ args.options = "bogus"
    /\ Failed("RangeError")

\* C14: in a construction the prototype is resolved from the constructor only
\* after the calendar-validity test and the supported-range test have both
\* succeeded on the date being built; when either fails, the prototype is
\* never resolved.
C14_CalloutAfterValidation ==
    /\ op = "as_object"
       => LET validated ==
                  /\ is_valid(args.value.year, args.value.month, args.value.day)
                  /\ is_within_supported_range(args.value.year, args.value.month,
                                               args.value.day)
          IN  /\ result.callout => validated
              /\ ~validated => /\ Failed("RangeError")
                               /\ ~result.callout
    /\ Constructing
    => LET m == IF PolicyOfCall = "constrain"
                THEN Clamp(args.month, 1, 12) ELSE args.month
           d == IF PolicyOfCall = "constrain"
                THEN Clamp(args.day, 1, iso_days_in_month(args.year, m)) ELSE args.day
           validated == /\ is_valid(args.year, m, d)
                        /\ is_within_supported_range(args.year, m, d)
       IN  /\ result.callout => validated
           /\ ~validated => /\ Failed("RangeError")
                            /\ ~result.callout

C14_Witness ==
    /\ op = "constructor"
    /\ args.newTarget = "throwing"
    /\ args.year = 275760 /\ args.month = 9 /\ args.day = 14
    /\ args.calendar = "iso8601"
    /\ Failed("RangeError")
    /\ ~result.callout

\* C16: to_temporal_date tests the shape of the options before it looks at
\* the item: with options that are neither undefined nor an object the call
\* fails with the options' TypeError for every item, a PlainDate included.
C16_OptionsCheckedFirst ==
    ( /\ Coercing
      /\ args.options = "number" )
    => Failed("TypeError")

C16_Witness ==
    /\ Coercing
    /\ args.options = "number"
    /\ args.item.kind = "PlainDate"
    /\ args.item.date = date
    /\ date # NoDate
    /\ Failed("TypeError")

\* the Monday that starts ISO week 1 of year y, as a day number: the Monday
\* of the week that holds the 4th of January, and so the year's first Thursday
MondayOfWeek1(y) ==
    LET jan4 == EpochDays(y, 1, 4)
    IN  jan4 - ((jan4 + 3) % 7)

\* the ISO week-numbering year of a date: the year whose weeks hold its day
IsoYearOf(d) ==
    LET e == EpochDays(d.year, d.month, d.day)
    IN  CHOOSE y \in {d.year - 1, d.year, d.year + 1} :
            MondayOfWeek1(y) <= e /\ e < MondayOfWeek1(y + 1)

\* the last call read accessor `name` of the PlainDate followed
Read(name) ==
    /\ op = "getter"
    /\ args.name = name
    /\ args.this.kind = "PlainDate"

\* C12: weekOfYear and yearOfWeek follow ISO-8601 week numbering: the date
\* lies in week weekOfYear (1..53) of year yearOfWeek, week 1 being the
\* Monday-to-Sunday week with the year's first Thursday; yearOfWeek is the
\* calendar year, the year before only in early January, the year after only
\* in late December. 2021-01-01 gives (2020, 53) and 2021-01-04 (2021, 1).
C12_IsoWeekNumbering ==
    LET e == EpochDays(date.year, date.month, date.day)
    IN  /\ Read("weekOfYear")
           => /\ result.status = "ok"
              /\ result.out \in 1 .. 53
              /\ result.out = ((e - MondayOfWeek1(IsoYearOf(date))) \div 7) + 1
              /\ date = IsoDate(2021, 1, 1, "iso8601") => result.out = 53
              /\ date = IsoDate(2021, 1, 4, "iso8601") => result.out = 1
        /\ Read("yearOfWeek")
           => /\ result.status = "ok"
              /\ result.out = IsoYearOf(date)
              /\ result.out \in {date.year - 1, date.year, date.year + 1}
              /\ result.out = date.year - 1 => date.month = 1 /\ date.day <= 3
              /\ result.out = date.year + 1 => date.month = 12 /\ date.day >= 29
              /\ date = IsoDate(2021, 1, 1, "iso8601") => result.out = 2020
              /\ date = IsoDate(2021, 1, 4, "iso8601") => result.out = 2021

C12_Witness ==
    /\ Read("weekOfYear")
    /\ date = IsoDate(2021, 1, 1, "iso8601")
    /\ result.out = 53

\* C13: a PlainDate is immutable: no accessor read, getCalendar call, stubbed
\* method call or to_temporal_date coercion changes the year, month, day or
\* calendar of the object it is given.
C13_DateImmutable ==
    [][date # NoDate => date' = date]_vars

C13_Witness ==
    /\ op = "method"
    /\ args.name = "getCalendar"
    /\ args.this.kind = "PlainDate"
    /\ result.status = "ok"
    /\ date = args.this.date

\* the date is calendar-valid and within the supported range
ValidInRange(d) ==
    /\ is_valid(d.year, d.month, d.day)
    /\ is_within_supported_range(d.year, d.month, d.day)

\* C15: every PlainDate there is, the object followed and the PlainDate a
\* construction or a coercion returned, is calendar-valid and within the
\* supported range.
C15_EveryDateValidInRange ==
    /\ date # NoDate => ValidInRange(date)
    /\ (result.status = "ok" /\ result.value # NoDate) => ValidInRange(result.value)

====
